---- MODULE Spec2Model ----
(***************************************************************************)
(* Photo sync engine of the BLOOMIN8 E-Ink Canvas integration:             *)
(* EinkCanvasApiClient.sync_photos_from_media_source and the helpers it    *)
(* calls (custom_components/bloomin8_eink_canvas/api_client.py).           *)
(* and the push_random_item service handler (__init__.py).                 *)
(*                                                                         *)
(* Strings the code inspects (paths, content types) are sequences of       *)
(* segments, "/" being a segment of its own, so that endswith, startswith  *)
(* and concatenation are computed, not assumed.                            *)
(***************************************************************************)
EXTENDS Integers, Sequences, FiniteSets, TLC

\* ------------------------------------------------------------------ bounds

\* Largest media tree browsed (number of nodes).
MaxNodes == 3

\* Largest max_photos argument tried.
MaxPhotos == 3

\* Largest max_retries argument tried on a direct upload_image call.
MaxRetries == 3

\* Most BLOOMIN8 media player entities present.
MaxPlayers == 2

\* The limit handle_push_random_item gives the walker.
PushLimit == 100

\* Entries runtime_data.logs keeps.
LogLimit == 50

\* upload_image's default max_retries, which sync_photos_from_media_source uses.
DefaultMaxRetries == 3

\* Titles of the photos a media source may hold; two nodes may share one.
Names == {"a.jpg", "b.jpg"}

\* Python's None.
None == "None"

Min(a, b) == IF a <= b THEN a ELSE b

RECURSIVE Pow2(_)
Pow2(n) == IF n = 0 THEN 1 ELSE 2 * Pow2(n - 1)

\* ------------------------------------------------------------ media tree

\* BrowseMedia items: a folder, a photo per title, and a playable non-image.
Folder ==
    [media_class |-> "directory", can_play |-> FALSE,
     media_content_type |-> <<>>, title |-> "dir",
     media_content_id |-> <<"media-source://", "dir">>]

Photo(n) ==
    [media_class |-> "image", can_play |-> TRUE,
     media_content_type |-> <<"image", "/", "jpeg">>, title |-> n,
     media_content_id |-> <<"media-source://", n>>]

Video ==
    [media_class |-> "video", can_play |-> TRUE,
     media_content_type |-> <<"video", "/", "mp4">>, title |-> "v.mp4",
     media_content_id |-> <<"media-source://", "v.mp4">>]

\* An image that cannot be played, and a playable one without content type.
Still ==
    [media_class |-> "image", can_play |-> FALSE,
     media_content_type |-> <<"image", "/", "jpeg">>, title |-> "s.jpg",
     media_content_id |-> <<"media-source://", "s.jpg">>]

Untyped ==
    [media_class |-> "image", can_play |-> TRUE,
     media_content_type |-> <<>>, title |-> "u.jpg",
     media_content_id |-> <<"media-source://", "u.jpg">>]

Items == {Folder, Video, Still, Untyped} \cup {Photo(n) : n \in Names}

\* parent[1] = 0 marks the root; a node's children are the later nodes naming it.
Parents(n) ==
    {p \in [1..n -> 0..(n - 1)] : p[1] = 0 /\ \A i \in 2..n : p[i] \in 1..(i - 1)}

\* A tree: node i is [item, parent]; children are presented in increasing i.
TreesOfSize(n) ==
    {[i \in 1..n |-> [item |-> k[i], parent |-> p[i]]] :
        k \in [1..n -> Items], p \in Parents(n)}

Trees == UNION {TreesOfSize(n) : n \in 1..MaxNodes}

RECURSIVE ChildrenFrom(_, _, _)
ChildrenFrom(t, n, i) ==
    IF i > Len(t) THEN <<>>
    ELSE IF t[i].parent = n THEN <<i>> \o ChildrenFrom(t, n, i + 1)
    ELSE ChildrenFrom(t, n, i + 1)

\* media_item.children, in presented order.
Children(t, n) == ChildrenFrom(t, n, 1)

\* str.startswith("image/") on a content type; <<>> is a missing or empty one.
StartsWithImage(ct) == Len(ct) >= 2 /\ ct[1] = "image" /\ ct[2] = "/"

\* IsPhotoLeaf without the tests of the content type.
IsPlayableImage(item) == item.media_class \in {"image", "photo"} /\ item.can_play

\* The condition of api_client.py:607-611.
IsPhotoLeaf(item) ==
    /\ item.media_class \in {"image", "photo"}
    /\ item.can_play
    /\ item.media_content_type # <<>>
    /\ StartsWithImage(item.media_content_type)

\* Number of photo leaves of a tree, counted without walking it.
CountPhotoLeaves(t) == Cardinality({i \in 1..Len(t) : IsPhotoLeaf(t[i].item)})

PhotoInfo(item) == [name |-> item.title, url |-> item.media_content_id]

RECURSIVE ExtractPhotos(_, _, _, _)
RECURSIVE ExtractChildren(_, _, _, _, _)

\* The loop of api_client.py:625-628 from child number i on.
ExtractChildren(t, ch, i, limit, acc) ==
    IF i > Len(ch) THEN acc
    ELSE LET got == ExtractPhotos(t, ch[i], limit, acc)
         IN IF Len(got) >= limit THEN got
            ELSE ExtractChildren(t, ch, i + 1, limit, got)

\* _extract_photos_from_media_item(media_item = node n, max_photos = limit, photos = acc).
ExtractPhotos(t, n, limit, acc) ==
    IF Len(acc) >= limit THEN acc
    ELSE LET here == IF IsPhotoLeaf(t[n].item)
                     THEN Append(acc, PhotoInfo(t[n].item)) ELSE acc
             ch == Children(t, n)
         IN IF ch # <<>> /\ Len(here) < limit
            THEN ExtractChildren(t, ch, 1, limit, here)
            ELSE here

\* photos[:max_photos] when the list is longer (api_client.py:574-575).
LimitPhotos(ps, limit) == IF Len(ps) > limit THEN SubSeq(ps, 1, limit) ELSE ps

\* What _browse_media_source_photos returns when async_browse_media answers tree t.
BrowsePhotos(t, limit) == LimitPhotos(ExtractPhotos(t, 1, limit, <<>>), limit)

\* The same walk with the calls it makes written down: st.photos is the list,
\* st.entered the nodes _extract_photos_from_media_item was called on, in order.
RECURSIVE Visit(_, _, _, _)
RECURSIVE VisitChildren(_, _, _, _, _)

\* VisitChildren without the break of line 627-628.
RECURSIVE VisitChildrenNoBreak(_, _, _, _, _)
VisitChildrenNoBreak(t, ch, i, limit, st) ==
    IF i > Len(ch) THEN st
    ELSE VisitChildrenNoBreak(t, ch, i + 1, limit, Visit(t, ch[i], limit, st))

\* The loop of api_client.py:625-628 from child number i on.
VisitChildren(t, ch, i, limit, st) ==
    IF i > Len(ch) THEN st
    ELSE LET got == Visit(t, ch[i], limit, st)
         IN IF Len(got.photos) >= limit THEN got
            ELSE VisitChildren(t, ch, i + 1, limit, got)

\* _extract_photos_from_media_item(media_item = node n, max_photos = limit,
\* photos = st.photos).
Visit(t, n, limit, st) ==
    LET in == [st EXCEPT !.entered = Append(@, n)]
    IN IF Len(in.photos) >= limit THEN in
       ELSE LET here == IF IsPhotoLeaf(t[n].item)
                        THEN [in EXCEPT !.photos = Append(@, PhotoInfo(t[n].item))]
                        ELSE in
                ch == Children(t, n)
            IN IF ch # <<>> /\ Len(here.photos) < limit
               THEN VisitChildren(t, ch, 1, limit, here)
               ELSE here

\* The calls of the walk that _browse_media_source_photos starts at the root.
BrowseVisits(t, limit) == Visit(t, 1, limit, [photos |-> <<>>, entered |-> <<>>])

\* ------------------------------------------------------------ the device

\* gallery of sync_photos_from_media_source's default target and one other.
Galleries == {"default", "album"}

TargetGallery == "default"

\* What GET /gallery may answer: a transport error (status 0), a non-200
\* status, or 200 with one of these bodies.
\*   listing    {"data": [{"name": ..., "size": ..., "time": ...}, ...]} of the stored files
\*   no_data    a JSON object without "data"
\*   data_null  {"data": null}
\*   nameless   {"data": [...]} whose entries carry no "name"
\*   array      a JSON array
\*   not_json   text json.loads rejects
InventoryBodies == {"listing", "no_data", "data_null", "nameless", "array", "not_json"}

InventoryResponses ==
    {[status |-> 200, body |-> b] : b \in InventoryBodies}
        \cup {[status |-> 500, body |-> "listing"], [status |-> 0, body |-> "listing"]}

\* {"data": []}, the value get_gallery_images falls back to.
EmptyInventory == [type |-> "object", has_data |-> TRUE, data_type |-> "list", entries |-> {}]

\* json.loads of a 200 body, files being the names stored in the gallery.
InventoryJson(body, files) ==
    CASE body = "listing" ->
            [type |-> "object", has_data |-> TRUE, data_type |-> "list",
             entries |-> {[has_name |-> TRUE, name |-> f] : f \in files}]
      [] body = "nameless" ->
            [type |-> "object", has_data |-> TRUE, data_type |-> "list",
             entries |-> {[has_name |-> FALSE, name |-> f] : f \in files}]
      [] body = "no_data" ->
            [type |-> "object", has_data |-> FALSE, data_type |-> "list", entries |-> {}]
      [] body = "data_null" ->
            [type |-> "object", has_data |-> TRUE, data_type |-> "null", entries |-> {}]
      [] OTHER ->
            [type |-> "array", has_data |-> FALSE, data_type |-> "list", entries |-> {}]

\* GetGalleryImages that parses the body whatever the status.
GetGalleryImagesAnyStatus(resp, files) ==
    IF resp.body # "not_json" THEN InventoryJson(resp.body, files) ELSE EmptyInventory

\* get_gallery_images: the parsed body of a 200 answer, {"data": []} otherwise.
GetGalleryImages(resp, files) ==
    IF resp.status = 200 /\ resp.body # "not_json"
    THEN InventoryJson(resp.body, files)
    ELSE EmptyInventory

\* ExistingPhotos that never finds a name.
ExistingPhotosNone(info) == [raised |-> None, names |-> {}]

\* {photo["name"] for photo in gallery_info.get("data", [])} (api_client.py:490):
\* the set of names, or the exception the expression raises.
ExistingPhotos(info) ==
    IF info.type # "object" THEN [raised |-> "AttributeError", names |-> {}]
    ELSE IF ~info.has_data THEN [raised |-> None, names |-> {}]
    ELSE IF info.data_type # "list" THEN [raised |-> "TypeError", names |-> {}]
    ELSE IF \E e \in info.entries : ~e.has_name THEN [raised |-> "KeyError", names |-> {}]
    ELSE [raised |-> None, names |-> {e.name : e \in info.entries}]

\* What the GET of a photo may give: a transport or resolve error (status 0),
\* a non-200 status, 200 with bytes, 200 with an empty body.
DownloadResponses ==
    {[status |-> 200, data |-> "bytes"], [status |-> 200, data |-> ""],
     [status |-> 404, data |-> ""], [status |-> 0, data |-> ""]}

\* _download_photo_data: the body of a 200 answer, None otherwise.
DownloadPhotoData(resp) == IF resp.status = 200 THEN resp.data ELSE None

\* Falsy that takes empty bytes for data.
FalsyNoneOnly(data) == data = None

\* Python's "not photo_data".
Falsy(data) == data = None \/ data = ""

\* ------------------------------------------------------------ upload_image

\* None where upload_image returns a path; like None it is falsy.
NoPath == <<>>

\* str.endswith on a segmented string.
EndsWith(str, seg) == Len(str) > 0 /\ str[Len(str)] = seg

\* f"/gallerys/{gallery}/"
GalleryDir(gallery) == <<"/", "gallerys", "/", gallery, "/">>

\* Bodies of a 200 answer to POST /upload.
\*   dir_slash    {"status": 100, "path": "/gallerys/<gallery>/"}
\*   dir_noslash  {"status": 100, "path": "/gallerys/<gallery>"}
\*   no_path      a JSON object without "path"
\*   path_null    {"path": null}
\*   array        a JSON array
\*   not_json     text json.loads rejects
UploadBodies == {"dir_slash", "dir_noslash", "no_path", "path_null", "array", "not_json"}

\* One attempt as the device and the network decide it: exc is what the POST
\* raises (None, "transport" for aiohttp.ClientError, asyncio.TimeoutError or
\* ConnectionError, "other" for any other Exception), status the HTTP status,
\* read what response.text() does ("ok" or one of the two kinds of exception).
UploadResponses ==
    {[exc |-> e, status |-> 0, read |-> "ok", body |-> "not_json"] :
        e \in {"transport", "other"}}
    \cup {[exc |-> None, status |-> 200, read |-> "ok", body |-> b] : b \in UploadBodies}
    \cup {[exc |-> None, status |-> 500, read |-> "ok", body |-> "not_json"]}
    \cup {[exc |-> None, status |-> st, read |-> r, body |-> "not_json"] :
            st \in {200, 500}, r \in {"transport", "other"}}

\* json.loads of a 200 body.
UploadJson(body, gallery) ==
    CASE body = "dir_slash" ->
            [type |-> "object", has_path |-> TRUE, path_type |-> "str",
             path |-> GalleryDir(gallery)]
      [] body = "dir_noslash" ->
            [type |-> "object", has_path |-> TRUE, path_type |-> "str",
             path |-> <<"/", "gallerys", "/", gallery>>]
      [] body = "no_path" ->
            [type |-> "object", has_path |-> FALSE, path_type |-> "str", path |-> <<>>]
      [] body = "path_null" ->
            [type |-> "object", has_path |-> TRUE, path_type |-> "null", path |-> <<>>]
      [] OTHER ->
            [type |-> "array", has_path |-> FALSE, path_type |-> "str", path |-> <<>>]

\* JoinPath that never adds the separator.
JoinPathAsIs(base_path, filename) == base_path \o <<filename>>

\* api_client.py:336-339 on a parsed object whose path is a string.
JoinPath(base_path, filename) ==
    (IF ~EndsWith(base_path, "/") THEN base_path \o <<"/">> ELSE base_path) \o <<filename>>

\* api_client.py:330-348 once the 200 body is read: the path returned, or the
\* exception raised (result.get on a non-object and base_path.endswith on a
\* non-string raise AttributeError, which only line 365 catches).
PathFromBody(body, filename, gallery) ==
    IF body = "not_json"
    THEN [raised |-> None, path |-> GalleryDir(gallery) \o <<filename>>]
    ELSE LET result == UploadJson(body, gallery)
         IN IF result.type # "object" THEN [raised |-> "other", path |-> NoPath]
            ELSE IF ~result.has_path
                 THEN [raised |-> None, path |-> JoinPath(GalleryDir(gallery), filename)]
            ELSE IF result.path_type # "str" THEN [raised |-> "other", path |-> NoPath]
            ELSE [raised |-> None, path |-> JoinPath(result.path, filename)]

\* The try block of one attempt (api_client.py:312-352): "return" with the value
\* returned, or the kind of exception that leaves the block.
TryUpload(resp, filename, gallery) ==
    IF resp.exc # None THEN [leaves |-> resp.exc, value |-> NoPath]
    ELSE IF resp.read # "ok" THEN [leaves |-> resp.read, value |-> NoPath]
    ELSE IF resp.status = 200
         THEN LET got == PathFromBody(resp.body, filename, gallery)
              IN IF got.raised = None THEN [leaves |-> "return", value |-> got.path]
                 ELSE [leaves |-> got.raised, value |-> NoPath]
    ELSE [leaves |-> "return", value |-> NoPath]

\* UploadAttemptResult that sleeps and goes on after every transport failure.
UploadAttemptAlwaysRetries(resp, filename, gallery, att, retries) ==
    LET try == TryUpload(resp, filename, gallery)
    IN IF try.leaves = "return" THEN [does |-> "return", value |-> try.value, wait |-> 0]
       ELSE IF try.leaves = "transport"
            THEN [does |-> "sleep", value |-> NoPath, wait |-> Pow2(att)]
       ELSE [does |-> "return", value |-> NoPath, wait |-> 0]

\* One pass of the for loop (api_client.py:311-367): return a value, or sleep
\* wait seconds and go on.
UploadAttemptResult(resp, filename, gallery, att, retries) ==
    LET try == TryUpload(resp, filename, gallery)
    IN IF try.leaves = "return" THEN [does |-> "return", value |-> try.value, wait |-> 0]
       ELSE IF try.leaves = "transport"
            THEN IF att < retries - 1
                 THEN [does |-> "sleep", value |-> NoPath, wait |-> Pow2(att)]
                 ELSE [does |-> "return", value |-> NoPath, wait |-> 0]
       ELSE [does |-> "return", value |-> NoPath, wait |-> 0]

\* ---------------------------------------------------------------- state

VARIABLES
    pc,                 \* where sync_photos_from_media_source is: idle, browse,
                        \* inventory, loop, download, upload, returned, raised
    media_source_id, max_photos, overwrite_existing,    \* its arguments
    photos,             \* the candidates _browse_media_source_photos returned
    existing_photos,    \* the inventory snapshot
    idx,                \* position of the for loop in photos
    result,             \* the result dict
    found,              \* photo leaves of the tree that was browsed
    browsed,            \* "no", "ok", or "error" when async_browse_media raised
    snapshot,           \* what the inventory request gave: "no" (none made), "failed"
                        \* (no 200 answer), "listing", "empty" (another body read
                        \* as no files), "raised" (a body the expression raises on)
    calls,              \* calls made of each helper that sends a request
    downloaded,         \* the answer to the download made in this pass of the loop
    run,                \* 1, or 2 when the same sync is invoked again
    first,              \* what the first run ended with, once there is a second
    device_files,       \* <<gallery, name>> of the files the device stores
    u_pc,               \* where upload_image is: idle, post, sleep, done
    caller,             \* "sync", or "direct" for a call of upload_image alone
    filename, gallery, max_retries,     \* its arguments
    attempt,            \* the loop variable of upload_image
    wait_time,          \* the wait_time of the except branch, 0 outside it
    delays,             \* the waits slept so far in this call, in order
    posts,              \* POST requests sent so far in this call
    last,               \* the answer to the latest POST of this call
    u_ret,              \* what a direct call returned
    w_pc,               \* a call of _browse_media_source_photos alone: idle, call, done
    w_tree, w_limit,    \* the tree async_browse_media gives it, and its max_photos
    w_photos,           \* the list it returned
    w_entered,          \* nodes _extract_photos_from_media_item was called on, in order
    p_pc,               \* where handle_push_random_item is: idle, call, browse, select, done
    p_source,           \* call.data.get("media_source_id")
    p_players,          \* BLOOMIN8 media player entities in the state machine
    p_photos,           \* the candidates it browsed
    p_selected,         \* position of random_photo in p_photos, 0 before the choice
    p_log,              \* messages given to add_log, in order
    p_commands          \* media_player.play_media service calls made, in order

syncVars ==
    <<pc, media_source_id, max_photos, overwrite_existing, photos, existing_photos,
      idx, result, found, browsed, snapshot, calls, downloaded>>

runVars == <<run, first>>

uploadVars ==
    <<u_pc, caller, filename, gallery, max_retries, attempt, wait_time, delays,
      posts, last, u_ret>>

walkVars == <<w_pc, w_tree, w_limit, w_photos, w_entered>>

pushVars == <<p_pc, p_source, p_players, p_photos, p_selected, p_log, p_commands>>

sideVars == <<walkVars, pushVars>>

vars == <<syncVars, runVars, device_files, uploadVars, sideVars>>

\* Neither _browse_media_source_photos alone nor handle_push_random_item is running.
WalkIdle ==
    w_pc = "idle" /\ w_tree = <<>> /\ w_limit = 0 /\ w_photos = <<>> /\ w_entered = <<>>

PushIdle ==
    /\ p_pc = "idle" /\ p_source = <<>> /\ p_players = 0 /\ p_photos = <<>>
    /\ p_selected = 0 /\ p_log = <<>> /\ p_commands = <<>>

\* media_source.is_media_source_id: the URI scheme decides.
MediaSourceIds == {<<"media-source://", "photos">>, <<"http://", "photos">>}

IsMediaSourceId(id) == id[1] = "media-source://"

\* api_client.py:461-468
NewResult ==
    [success |-> FALSE, synced_count |-> 0, skipped_count |-> 0, failed_count |-> 0,
     errors |-> <<>>, synced_photos |-> <<>>]

NoCalls == [browse |-> 0, inventory |-> 0, download |-> 0, upload |-> 0]

NoDownload == [status |-> -1, data |-> ""]

NoResponse == [exc |-> None, status |-> -1, read |-> "ok", body |-> "not_json"]

NoFirst == [result |-> NewResult, photos |-> <<>>, found |-> 0, browsed |-> "no"]

\* OuterExcept without its except clause: the exception leaves the function.
OuterExceptReraises(res, err) == [result |-> res, pc |-> "raised"]

\* The except clause of api_client.py:544-548: the error is recorded and the
\* result returned.
OuterExcept(res, err) ==
    [result |-> [res EXCEPT !.errors = Append(@, <<"Photo sync failed", err>>)],
     pc |-> "returned"]

\* SkipsPhoto without the look-up in the snapshot.
SkipsUnlessOverwrite(overwrite, name, existing) == ~overwrite

\* api_client.py:500
SkipsPhoto(overwrite, name, existing) == ~overwrite /\ name \in existing

\* DownloadFailed that records the error without counting it.
DownloadFailedUncounted(res, name) ==
    [res EXCEPT !.errors = Append(@, <<"Failed to download photo", name>>)]

\* api_client.py:508-509
DownloadFailed(res, name) ==
    [res EXCEPT !.errors = Append(@, <<"Failed to download photo", name>>),
                !.failed_count = @ + 1]

\* AfterUpload that records a failed upload without counting it.
AfterUploadUncounted(res, name, uploaded_path) ==
    IF uploaded_path # NoPath
    THEN [res EXCEPT !.synced_photos = Append(@, uploaded_path), !.synced_count = @ + 1]
    ELSE [res EXCEPT !.errors = Append(@, <<"Failed to upload photo", name>>)]

\* api_client.py:520-526
AfterUpload(res, name, uploaded_path) ==
    IF uploaded_path # NoPath
    THEN [res EXCEPT !.synced_photos = Append(@, uploaded_path), !.synced_count = @ + 1]
    ELSE [res EXCEPT !.errors = Append(@, <<"Failed to upload photo", name>>),
                     !.failed_count = @ + 1]

\* OverallSuccess without the test that something was synced.
OverallSuccessNoFailure(res) == res.failed_count = 0

\* api_client.py:535
OverallSuccess(res) == res.failed_count = 0 /\ res.synced_count > 0

StoredIn(g) == {f[2] : f \in {x \in device_files : x[1] = g}}

UploadIdle ==
    /\ u_pc' = "idle" /\ caller' = "none" /\ filename' = "" /\ gallery' = ""
    /\ max_retries' = 0 /\ attempt' = 0 /\ wait_time' = 0 /\ delays' = <<>>
    /\ posts' = 0 /\ last' = NoResponse /\ u_ret' = NoPath

\* ---------------------------------------------- sync_photos_from_media_source

\* Start without the validation of the id.
StartUnvalidated(id, limit, overwrite) ==
    /\ media_source_id' = id /\ max_photos' = limit /\ overwrite_existing' = overwrite
    /\ result' = NewResult /\ pc' = "browse"
    /\ photos' = <<>> /\ existing_photos' = {} /\ idx' = 1
    /\ found' = 0 /\ browsed' = "no" /\ snapshot' = "no" /\ calls' = NoCalls
    /\ downloaded' = NoDownload
    /\ UNCHANGED <<device_files, uploadVars>>

\* api_client.py:461-475: the result is created and the id validated.
Start(id, limit, overwrite) ==
    LET go == IF IsMediaSourceId(id)
              THEN [result |-> NewResult, pc |-> "browse"]
              ELSE OuterExcept(NewResult, "ValueError")
    IN /\ media_source_id' = id /\ max_photos' = limit /\ overwrite_existing' = overwrite
       /\ result' = go.result /\ pc' = go.pc
       /\ photos' = <<>> /\ existing_photos' = {} /\ idx' = 1
       /\ found' = 0 /\ browsed' = "no" /\ snapshot' = "no" /\ calls' = NoCalls
       /\ downloaded' = NoDownload
       /\ UNCHANGED <<device_files, uploadVars>>

Call ==
    /\ pc = "idle"
    /\ \E id \in MediaSourceIds, limit \in 0..MaxPhotos, overwrite \in BOOLEAN :
          Start(id, limit, overwrite)
    /\ UNCHANGED runVars
    /\ UNCHANGED sideVars

\* The media source is unchanged between two runs: a second browse shows a
\* tree with the walk and the photo leaves of the first.
SameSource(t) ==
    \/ run = 1
    \/ first.browsed # "ok"
    \/ /\ BrowsePhotos(t, max_photos) = first.photos
       /\ CountPhotoLeaves(t) = first.found

\* Browsed without the early return on an empty list.
BrowsedNoEarlyReturn(ps, leaves, how) ==
    /\ photos' = ps /\ found' = leaves /\ browsed' = how
    /\ calls' = [calls EXCEPT !.browse = @ + 1]
    /\ result' = result /\ pc' = IF overwrite_existing THEN "loop" ELSE "inventory"
    /\ UNCHANGED <<downloaded, media_source_id, max_photos, overwrite_existing, existing_photos,
                   idx, snapshot, runVars, device_files, uploadVars>>

\* api_client.py:478-484, after _browse_media_source_photos returned ps.
Browsed(ps, leaves, how) ==
    /\ photos' = ps /\ found' = leaves /\ browsed' = how
    /\ calls' = [calls EXCEPT !.browse = @ + 1]
    /\ IF ps = <<>>
       THEN result' = [result EXCEPT !.success = TRUE] /\ pc' = "returned"
       ELSE result' = result /\ pc' = IF overwrite_existing THEN "loop" ELSE "inventory"
    /\ UNCHANGED <<downloaded, media_source_id, max_photos, overwrite_existing, existing_photos,
                   idx, snapshot, runVars, device_files, uploadVars>>

\* _browse_media_source_photos (api_client.py:560-581): async_browse_media gives a
\* tree, which is walked, or raises, and the list stays empty.
Browse ==
    /\ pc = "browse"
    /\ \E ok \in BOOLEAN :
          IF ok
          THEN \E t \in Trees :
                  SameSource(t) /\ Browsed(BrowsePhotos(t, max_photos), CountPhotoLeaves(t), "ok")
          ELSE Browsed(<<>>, 0, "error")
    /\ UNCHANGED sideVars

\* api_client.py:487-491
GetInventory ==
    /\ pc = "inventory"
    /\ \E resp \in InventoryResponses :
          LET got == ExistingPhotos(GetGalleryImages(resp, StoredIn(TargetGallery)))
              handled == OuterExcept(result, got.raised)
          IN /\ calls' = [calls EXCEPT !.inventory = @ + 1]
             /\ snapshot' = IF resp.status # 200 THEN "failed"
                            ELSE IF got.raised # None THEN "raised"
                            ELSE IF resp.body = "listing" THEN "listing"
                            ELSE "empty"
             /\ IF got.raised = None
                THEN /\ existing_photos' = got.names
                     /\ result' = result /\ pc' = "loop"
                ELSE /\ existing_photos' = {}
                     /\ result' = handled.result /\ pc' = handled.pc
    /\ UNCHANGED <<downloaded, media_source_id, max_photos, overwrite_existing, photos, idx, found,
                   browsed, runVars, device_files, uploadVars>>
    /\ UNCHANGED sideVars

\* api_client.py:494-503: the next candidate is skipped or goes on to its download.
NextPhoto ==
    /\ pc = "loop" /\ idx <= Len(photos)
    /\ IF SkipsPhoto(overwrite_existing, photos[idx].name, existing_photos)
       THEN /\ result' = [result EXCEPT !.skipped_count = @ + 1]
            /\ idx' = idx + 1 /\ pc' = "loop"
       ELSE /\ result' = result /\ idx' = idx /\ pc' = "download"
    /\ downloaded' = NoDownload
    /\ UNCHANGED <<media_source_id, max_photos, overwrite_existing, photos,
                   existing_photos, found, browsed, snapshot, calls, runVars,
                   device_files, uploadVars>>
    /\ UNCHANGED sideVars

\* api_client.py:506-518: one download; a failed one ends the candidate, a good
\* one is handed to upload_image with its default max_retries.
Download ==
    /\ pc = "download"
    /\ \E resp \in DownloadResponses :
          LET photo_data == DownloadPhotoData(resp)
          IN /\ downloaded' = resp
             /\ IF Falsy(photo_data)
                THEN /\ result' = DownloadFailed(result, photos[idx].name)
                     /\ idx' = idx + 1 /\ pc' = "loop"
                     /\ calls' = [calls EXCEPT !.download = @ + 1]
                     /\ UNCHANGED uploadVars
                ELSE /\ result' = result /\ idx' = idx /\ pc' = "upload"
                     /\ calls' = [calls EXCEPT !.download = @ + 1, !.upload = @ + 1]
                     /\ u_pc' = "post" /\ caller' = "sync"
                     /\ filename' = photos[idx].name /\ gallery' = TargetGallery
                     /\ max_retries' = DefaultMaxRetries
                     /\ attempt' = 0 /\ wait_time' = 0 /\ delays' = <<>> /\ posts' = 0
                     /\ last' = NoResponse /\ u_ret' = NoPath
    /\ UNCHANGED <<media_source_id, max_photos, overwrite_existing, photos,
                   existing_photos, found, browsed, snapshot, runVars, device_files>>
    /\ UNCHANGED sideVars

\* api_client.py:535-542
Finalize ==
    /\ pc = "loop" /\ idx > Len(photos)
    /\ result' = [result EXCEPT !.success = OverallSuccess(result)]
    /\ pc' = "returned"
    /\ UNCHANGED <<downloaded, media_source_id, max_photos, overwrite_existing, photos,
                   existing_photos, idx, found, browsed, snapshot, calls, runVars,
                   device_files, uploadVars>>
    /\ UNCHANGED sideVars

\* ------------------------------------------------------------ upload_image

\* upload_image returns value: to the loop of the sync, which books it
\* (api_client.py:520-526) and goes to the next candidate, or to a direct caller.
Returns(value, resp, sent) ==
    IF caller = "sync"
    THEN /\ result' = AfterUpload(result, filename, value)
         /\ idx' = idx + 1 /\ pc' = "loop"
         /\ UploadIdle
         /\ UNCHANGED <<downloaded, media_source_id, max_photos, overwrite_existing, photos,
                        existing_photos, found, browsed, snapshot, calls>>
    ELSE /\ u_pc' = "done" /\ u_ret' = value /\ posts' = posts + sent /\ last' = resp
         /\ UNCHANGED <<caller, filename, gallery, max_retries, attempt, wait_time,
                        delays, syncVars>>

\* One attempt (api_client.py:311-367). A device that answers 200 has stored the
\* upload under its filename.
UploadAttempt ==
    /\ u_pc = "post" /\ attempt < max_retries
    /\ \E resp \in UploadResponses :
          LET r == UploadAttemptResult(resp, filename, gallery, attempt, max_retries)
          IN /\ device_files' =
                    IF resp.exc = None /\ resp.status = 200
                    THEN device_files \cup {<<gallery, filename>>}
                    ELSE device_files
             /\ IF r.does = "sleep"
                THEN /\ u_pc' = "sleep" /\ wait_time' = r.wait
                     /\ posts' = posts + 1 /\ last' = resp
                     /\ UNCHANGED <<caller, filename, gallery, max_retries, attempt,
                                    delays, u_ret, syncVars>>
                ELSE Returns(r.value, resp, 1)
    /\ UNCHANGED runVars
    /\ UNCHANGED sideVars

\* await asyncio.sleep(wait_time), then the next pass of the loop.
UploadSleep ==
    /\ u_pc = "sleep"
    /\ delays' = Append(delays, wait_time)
    /\ attempt' = attempt + 1
    /\ wait_time' = 0
    /\ u_pc' = "post"
    /\ UNCHANGED <<caller, filename, gallery, max_retries, posts, last, u_ret,
                   syncVars, runVars, device_files>>
    /\ UNCHANGED sideVars

\* api_client.py:369: the loop ended without a return.
UploadExhausted ==
    /\ u_pc = "post" /\ attempt >= max_retries
    /\ Returns(NoPath, last, 0)
    /\ UNCHANGED <<runVars, device_files>>
    /\ UNCHANGED sideVars

\* ------------------------------------------------------- specifications

Init ==
    /\ pc = "idle"
    /\ media_source_id = <<"", "">> /\ max_photos = 0 /\ overwrite_existing = FALSE
    /\ photos = <<>> /\ existing_photos = {} /\ idx = 1 /\ result = NewResult
    /\ found = 0 /\ browsed = "no" /\ snapshot = "no" /\ calls = NoCalls
    /\ downloaded = NoDownload
    /\ run = 1 /\ first = NoFirst
    /\ device_files \in SUBSET ({TargetGallery} \X Names)
    /\ u_pc = "idle" /\ caller = "none" /\ filename = "" /\ gallery = ""
    /\ max_retries = 0 /\ attempt = 0 /\ wait_time = 0 /\ delays = <<>>
    /\ posts = 0 /\ last = NoResponse /\ u_ret = NoPath
    /\ WalkIdle /\ PushIdle

\* One run of sync_photos_from_media_source.
Next ==
    \/ Call
    \/ Browse
    \/ GetInventory
    \/ NextPhoto
    \/ Download
    \/ UploadAttempt
    \/ UploadSleep
    \/ Finalize

Spec == Init /\ [][Next]_vars

\* One run in which every request is answered or fails, and every await returns:
\* a step that can be taken is taken.
SpecFair == Spec /\ WF_vars(Next)

\* The caller invokes the same sync again once a first run has reported success:
\* the same arguments, the same media source, the device as the first run left it.
SecondRun ==
    /\ pc = "returned" /\ run = 1
    /\ result.success
    /\ run' = 2
    /\ first' = [result |-> result, photos |-> photos, found |-> found,
                 browsed |-> browsed]
    /\ Start(media_source_id, max_photos, overwrite_existing)
    /\ UNCHANGED sideVars

NextTwice ==
    \/ Next
    \/ SecondRun

\* Two runs of sync_photos_from_media_source, one after the other.
SpecTwice == Init /\ [][NextTwice]_vars

\* upload_image called alone.
InitUpload ==
    /\ pc = "idle"
    /\ media_source_id = <<"", "">> /\ max_photos = 0 /\ overwrite_existing = FALSE
    /\ photos = <<>> /\ existing_photos = {} /\ idx = 1 /\ result = NewResult
    /\ found = 0 /\ browsed = "no" /\ snapshot = "no" /\ calls = NoCalls
    /\ downloaded = NoDownload
    /\ run = 1 /\ first = NoFirst
    /\ device_files = {}
    /\ u_pc = "post" /\ caller = "direct"
    /\ filename \in Names /\ gallery \in Galleries
    /\ max_retries \in 0..MaxRetries
    /\ attempt = 0 /\ wait_time = 0 /\ delays = <<>>
    /\ posts = 0 /\ last = NoResponse /\ u_ret = NoPath
    /\ WalkIdle /\ PushIdle

NextUpload ==
    \/ UploadAttempt
    \/ UploadSleep
    \/ UploadExhausted

SpecUpload == InitUpload /\ [][NextUpload]_vars

\* _browse_media_source_photos called alone (api_client.py:560-581):
\* async_browse_media gives the tree, or raises and the list stays empty.
WalkBrowse ==
    /\ w_pc = "call"
    /\ \E ok \in BOOLEAN :
          IF ok
          THEN /\ w_photos' = BrowsePhotos(w_tree, w_limit)
               /\ w_entered' = BrowseVisits(w_tree, w_limit).entered
               /\ w_pc' = "done"
          ELSE /\ w_photos' = <<>> /\ w_entered' = <<>> /\ w_pc' = "failed"
    /\ UNCHANGED <<w_tree, w_limit, syncVars, runVars, device_files, uploadVars, pushVars>>

InitWalk ==
    /\ pc = "idle"
    /\ media_source_id = <<"", "">> /\ max_photos = 0 /\ overwrite_existing = FALSE
    /\ photos = <<>> /\ existing_photos = {} /\ idx = 1 /\ result = NewResult
    /\ found = 0 /\ browsed = "no" /\ snapshot = "no" /\ calls = NoCalls
    /\ downloaded = NoDownload
    /\ run = 1 /\ first = NoFirst
    /\ device_files = {}
    /\ u_pc = "idle" /\ caller = "none" /\ filename = "" /\ gallery = ""
    /\ max_retries = 0 /\ attempt = 0 /\ wait_time = 0 /\ delays = <<>>
    /\ posts = 0 /\ last = NoResponse /\ u_ret = NoPath
    /\ w_pc = "call" /\ w_tree \in Trees /\ w_limit \in 0..MaxPhotos
    /\ w_photos = <<>> /\ w_entered = <<>>
    /\ PushIdle

NextWalk ==
    \/ WalkBrowse

\* The walker on every tree and every max_photos of the bounds.
SpecWalk == InitWalk /\ [][NextWalk]_vars

\* ------------------------------------------------- handle_push_random_item

\* dict.get(key): whether a truthy value is there, and the value.
DictGet(d, key) ==
    IF key \in DOMAIN d
    THEN [truthy |-> d[key] # <<>>, value |-> d[key]]
    ELSE [truthy |-> FALSE, value |-> <<>>]

\* random_photo.get('title', 'Unknown')
TitleOf(d) == IF "title" \in DOMAIN d THEN d["title"] ELSE "Unknown"

\* add_log(message, level): only the latest LogLimit entries are kept.
Logged(log, level, message) ==
    LET logs == Append(log, [level |-> level, message |-> message])
    IN IF Len(logs) > LogLimit THEN Tail(logs) ELSE logs

\* __init__.py:207-213
PushCall ==
    /\ p_pc = "call"
    /\ IF p_source = <<>>
       THEN /\ p_log' = Logged(p_log, "error", <<"No media source ID provided">>)
            /\ p_pc' = "done"
       ELSE /\ p_log' = Logged(p_log, "info", <<"Getting random photo">>)
            /\ p_pc' = "browse"
    /\ UNCHANGED <<p_source, p_players, p_photos, p_selected, p_commands, walkVars,
                   syncVars, runVars, device_files, uploadVars>>

\* __init__.py:217-221: the walker is given the limit 100; a source that cannot
\* be browsed gives the empty list.
PushBrowse ==
    /\ p_pc = "browse"
    /\ \E ok \in BOOLEAN, t \in Trees :
          LET ps == IF ok /\ IsMediaSourceId(p_source)
                    THEN BrowsePhotos(t, PushLimit) ELSE <<>>
          IN /\ p_photos' = ps
             /\ IF ps = <<>>
                THEN /\ p_log' = Logged(p_log, "error", <<"No photos found in media source">>)
                     /\ p_pc' = "done"
                ELSE /\ p_log' = p_log /\ p_pc' = "select"
    /\ UNCHANGED <<p_source, p_players, p_selected, p_commands, walkVars,
                   syncVars, runVars, device_files, uploadVars>>

\* __init__.py:224-261: random.choice, then play_media on every BLOOMIN8 player
\* with the media_content_id of the chosen dict.
PushSelect ==
    /\ p_pc = "select"
    /\ \E i \in 1..Len(p_photos) :
          LET random_photo == p_photos[i]
              media_content_id == DictGet(random_photo, "media_content_id")
              media_content_type == DictGet(random_photo, "media_content_type")
              chosen == Logged(p_log, "info",
                               <<"Selected random photo", TitleOf(random_photo)>>)
          IN /\ p_selected' = i
             /\ IF ~media_content_id.truthy
                THEN /\ p_log' = Logged(chosen, "error",
                                        <<"Selected photo has no media_content_id">>)
                     /\ p_commands' = p_commands
                ELSE IF p_players = 0
                THEN /\ p_log' = Logged(chosen, "error",
                                        <<"No BLOOMIN8 E-Ink Canvas media players found">>)
                     /\ p_commands' = p_commands
                ELSE /\ p_commands' =
                            [k \in 1..p_players |->
                                [entity_id |-> k,
                                 media_content_id |-> media_content_id.value,
                                 media_content_type |->
                                    IF media_content_type.truthy
                                    THEN media_content_type.value
                                    ELSE <<"image", "/", "jpeg">>]]
                     /\ p_log' = Logged(chosen, "info",
                                        <<"Successfully pushed random photo">>)
    /\ p_pc' = "done"
    /\ UNCHANGED <<p_source, p_players, p_photos, walkVars,
                   syncVars, runVars, device_files, uploadVars>>

InitPush ==
    /\ pc = "idle"
    /\ media_source_id = <<"", "">> /\ max_photos = 0 /\ overwrite_existing = FALSE
    /\ photos = <<>> /\ existing_photos = {} /\ idx = 1 /\ result = NewResult
    /\ found = 0 /\ browsed = "no" /\ snapshot = "no" /\ calls = NoCalls
    /\ downloaded = NoDownload
    /\ run = 1 /\ first = NoFirst
    /\ device_files = {}
    /\ u_pc = "idle" /\ caller = "none" /\ filename = "" /\ gallery = ""
    /\ max_retries = 0 /\ attempt = 0 /\ wait_time = 0 /\ delays = <<>>
    /\ posts = 0 /\ last = NoResponse /\ u_ret = NoPath
    /\ WalkIdle
    /\ p_pc = "call" /\ p_source \in {<<>>} \cup MediaSourceIds
    /\ p_players \in 0..MaxPlayers
    /\ p_photos = <<>> /\ p_selected = 0 /\ p_log = <<>> /\ p_commands = <<>>

NextPush ==
    \/ PushCall
    \/ PushBrowse
    \/ PushSelect

\* One call of the push_random_item service.
SpecPush == InitPush /\ [][NextPush]_vars

\* ------------------------------------------------------------------ claims

Counted == result.synced_count + result.skipped_count + result.failed_count

\* Errors of the result that start with the given text.
ErrorsOf(text) == {i \in 1..Len(result.errors) : result.errors[i][1] = text}

\* C1: for any completed run, synced_count + skipped_count + failed_count equals
\* min(number of photo leaves found in the tree, max_photos).
C1_CountersCoverCandidates ==
    pc = "returned" => Counted = Min(found, max_photos)

C3_SuccessFlag ==
    pc = "returned" =>
        result.success = (result.failed_count = 0 /\ result.synced_count > 0)

\* C3, amended: at the end of every run the success flag equals
\* (failed_count == 0 AND synced_count > 0), except that a run whose browse
\* yields no candidate ends with success true.
C3_SuccessFlagUnlessEmpty ==
    pc = "returned" =>
        result.success =
            IF browsed # "no" /\ photos = <<>> THEN TRUE
            ELSE result.failed_count = 0 /\ result.synced_count > 0

\* A run over candidates that skipped all of them and reports no success.
C3_Witness ==
    /\ pc = "returned" /\ photos # <<>>
    /\ result.skipped_count = Len(photos)
    /\ ~result.success

\* C4: when the walked tree yields no photo leaves, sync returns success true,
\* all three counters zero and no errors, and makes no inventory, download or
\* upload call.
C4_EmptyTreeIsSuccess ==
    (pc # "browse" /\ browsed = "ok" /\ found = 0) =>
        /\ pc = "returned"
        /\ result = [NewResult EXCEPT !.success = TRUE]
        /\ calls.inventory = 0 /\ calls.download = 0 /\ calls.upload = 0
        /\ u_pc = "idle"

\* A run that browsed a tree without photo leaves.
C4_Witness ==
    pc = "returned" /\ browsed = "ok" /\ found = 0 /\ calls.browse = 1

FirstUploadedAll ==
    /\ run = 2
    /\ first.browsed = "ok" /\ first.photos # <<>>
    /\ first.result.synced_count = Len(first.photos)

\* C6, as stated: with overwrite_existing false, the second of two runs against
\* the same source and device, the first of which uploaded every candidate,
\* syncs nothing and skips every candidate it finds. (A second run that the
\* inventory expression cut short uploads nothing either; it is left aside.)
C6_SecondRunSkipsAll ==
    (pc = "returned" /\ ~overwrite_existing /\ FirstUploadedAll
        /\ snapshot # "raised") =>
        /\ result.synced_count = 0
        /\ result.skipped_count = Len(photos)

\* C6, amended: the same, provided the inventory request of the second run is
\* answered with the listing of the stored files.
C6_SecondRunSkipsAllWhenListed ==
    (pc = "returned" /\ ~overwrite_existing /\ FirstUploadedAll
        /\ snapshot \notin {"failed", "empty", "raised"}) =>
        /\ result.synced_count = 0
        /\ result.skipped_count = Len(photos)
        /\ result.failed_count = 0

\* A second run that found the two or more candidates the first run uploaded.
C6_Witness ==
    /\ pc = "returned" /\ ~overwrite_existing /\ FirstUploadedAll
    /\ snapshot = "listing"
    /\ Len(photos) >= 2 /\ photos = first.photos

\* Candidates before position n whose name is, or is not, in the snapshot.
InSnapshot(n) == {j \in 1..(n - 1) : photos[j].name \in existing_photos}
NotInSnapshot(n) == {j \in 1..(n - 1) : photos[j].name \notin existing_photos}

\* C7: with overwrite_existing false, a candidate whose name is in the snapshot
\* adds one to skipped_count and is neither downloaded nor uploaded; every other
\* candidate is downloaded, and uploaded if the download gave data.
C7_SkipOrAttempt ==
    (~overwrite_existing /\ snapshot \in {"listing", "empty", "failed"}) =>
        /\ result.skipped_count = Cardinality(InSnapshot(idx))
        /\ calls.download =
              Cardinality(NotInSnapshot(idx)) + (IF pc = "upload" THEN 1 ELSE 0)
        /\ calls.upload =
              calls.download - Cardinality(ErrorsOf("Failed to download photo"))
        /\ pc \in {"download", "upload"} => photos[idx].name \notin existing_photos

\* Three candidates, one of them in the snapshot: one skipped, two downloaded.
C7_Witness ==
    /\ pc = "returned" /\ ~overwrite_existing /\ snapshot = "listing"
    /\ Len(photos) = 3
    /\ result.skipped_count = 1 /\ calls.download = 2

\* The step in which upload_image comes back to the loop without a path.
UploadFailedStep ==
    /\ pc = "upload" /\ pc' = "loop"
    /\ result'.synced_photos = result.synced_photos

\* C8: a failed upload adds one to failed_count and an error naming the
\* candidate, the loop goes on with the next candidate, and a run that had such
\* a failure ends, all candidates processed, with success false.
C8_UploadFailureBooked ==
    /\ [][UploadFailedStep =>
            /\ result'.failed_count = result.failed_count + 1
            /\ result'.errors =
                  Append(result.errors, <<"Failed to upload photo", photos[idx].name>>)
            /\ result'.synced_count = result.synced_count
            /\ result'.skipped_count = result.skipped_count
            /\ idx' = idx + 1 /\ photos' = photos]_vars
    /\ [](ErrorsOf("Failed to upload photo") # {} =>
            /\ result.failed_count = Len(result.errors)
            /\ Counted = idx - 1
            /\ pc = "returned" => (~result.success /\ idx = Len(photos) + 1))

\* A run whose first upload failed and which synced a later candidate.
C8_Witness ==
    /\ pc = "returned" /\ Len(photos) >= 2
    /\ Len(result.errors) >= 1
    /\ result.errors[1] = <<"Failed to upload photo", photos[1].name>>
    /\ result.synced_count >= 1
    /\ ~result.success

\* The latest POST got an HTTP status.
GotStatus(st) == last.exc = None /\ last.status = st

\* The latest POST failed at transport level.
TransportFailed ==
    last.status # -1 /\ (last.exc = "transport" \/ (last.exc = None /\ last.read = "transport"))

\* C9: upload_image with max_retries = n sends at most n POSTs, waits 2^(k-1)
\* seconds after the k-th transport failure while k < n, returns the path on the
\* first attempt that gets HTTP 200, and after n transport failures returns
\* failure without a further wait; transport failures on attempts 1 and 2 and
\* success on attempt 3 give the waits 1, 2 and a path. (An attempt whose answer
\* cannot be read counts with the transport failures, as the code handles it.)
C9_RetryWithBackoff ==
    /\ posts <= max_retries
    /\ Len(delays) <= posts
    /\ \A k \in 1..Len(delays) : delays[k] = Pow2(k - 1) /\ k < max_retries
    /\ (GotStatus(200) /\ last.read = "ok") => (u_pc = "done" /\ u_ret # NoPath)
    /\ (u_pc = "done" /\ TransportFailed) =>
          (u_ret = NoPath /\ posts = max_retries /\ Len(delays) = max_retries - 1)
    /\ (u_pc = "done" /\ posts = 3 /\ u_ret # NoPath) => delays = <<1, 2>>

\* C10: in upload_image a non-200 status ends the call: failure is returned
\* after that attempt, with no wait and no further request.
C10_Non200IsTerminal ==
    (last.exc = None /\ last.status \notin {200, -1}) =>
        (u_pc = "done" /\ u_ret = NoPath /\ wait_time = 0)

\* The latest POST was answered 200 with a readable body of the given kinds.
Got200With(bodies) == GotStatus(200) /\ last.read = "ok" /\ last.body \in bodies

\* "/gallerys/{gallery}/{filename}"
DefaultPath(g, f) == <<"/", "gallerys", "/", g, "/", f>>

\* C11: an HTTP 200 whose body is not the expected structure (not JSON, JSON
\* that is no object, an object without path or with a path that is no string)
\* is a success: upload_image returns "/gallerys/{gallery}/{filename}", without
\* a retry and without a failure.
C11_Status200IsAuthoritative ==
    Got200With({"not_json", "array", "no_path", "path_null"}) =>
        /\ u_pc = "done" /\ wait_time = 0
        /\ u_ret = DefaultPath(gallery, filename)

\* A directory path without one trailing separator.
Stripped(dir) == IF EndsWith(dir, "/") THEN SubSeq(dir, 1, Len(dir) - 1) ELSE dir

\* The directory the device named in its latest answer.
DirReturned == UploadJson(last.body, gallery).path

\* C12: the path upload_image returns is the directory the device returned and
\* the filename with exactly one separator between them, so a directory with
\* and one without a trailing slash give the same path.
C12_OneSeparator ==
    Got200With({"dir_slash", "dir_noslash"}) =>
        /\ u_pc = "done"
        /\ u_ret = Stripped(DirReturned) \o <<"/", filename>>
        /\ u_ret = DefaultPath(gallery, filename)

\* The device named the directory without a trailing slash.
C12_Witness ==
    /\ Got200With({"dir_noslash"}) /\ u_pc = "done"
    /\ ~EndsWith(DirReturned, "/")
    /\ filename = "a.jpg" /\ gallery = "default"
    /\ u_ret = <<"/", "gallerys", "/", "default", "/", "a.jpg">>

RECURSIVE PreOrder(_, _)
RECURSIVE PreOrderOf(_, _, _)

\* The nodes under the children ch[i..], each subtree in turn.
PreOrderOf(t, ch, i) ==
    IF i > Len(ch) THEN <<>> ELSE PreOrder(t, ch[i]) \o PreOrderOf(t, ch, i + 1)

\* Depth-first pre-order of the subtree at node n, children in presented order.
PreOrder(t, n) == <<n>> \o PreOrderOf(t, Children(t, n), 1)

\* Photo leaf as the specification defines it.
Qualifies(item) ==
    /\ item.media_class \in {"image", "photo"}
    /\ item.can_play
    /\ Len(item.media_content_type) >= 2
    /\ SubSeq(item.media_content_type, 1, 2) = <<"image", "/">>

\* The order up to and including its k-th qualifying node, from position i on.
RECURSIVE UpToLeaf(_, _, _, _)
UpToLeaf(t, order, i, k) ==
    IF k = 0 \/ i > Len(order) THEN <<>>
    ELSE <<order[i]>>
            \o UpToLeaf(t, order, i + 1, IF Qualifies(t[order[i]].item) THEN k - 1 ELSE k)

\* C13: on a tree with more photo leaves than max_photos the walker is called on
\* no node after the max_photos-th qualifying leaf in depth-first pre-order, and
\* returns no more than max_photos entries. (With max_photos = 0 the one call,
\* on the root, returns before it looks at the node.)
C13_ShortCircuit ==
    (w_pc = "done" /\ CountPhotoLeaves(w_tree) > w_limit) =>
        /\ Len(w_photos) <= w_limit
        /\ w_limit >= 1 => w_entered = UpToLeaf(w_tree, PreOrder(w_tree, 1), 1, w_limit)
        /\ w_limit = 0 => w_entered = <<1>> /\ w_photos = <<>>
        /\ BrowseVisits(w_tree, w_limit).photos = ExtractPhotos(w_tree, 1, w_limit, <<>>)

\* A folder with two photos and max_photos = 1: the walk ends at the first
\* photo, and the walker is not called on its later sibling.
C13_Witness ==
    /\ w_pc = "done" /\ w_limit = 1 /\ Len(w_tree) = 3
    /\ w_tree[1].item = Folder /\ CountPhotoLeaves(w_tree) = 2
    /\ w_tree[2].parent = 1 /\ w_tree[3].parent = 1
    /\ w_entered = <<1, 2>> /\ Len(w_photos) = 1

\* The qualifying nodes of a tree in depth-first pre-order.
LeavesInOrder(t) == SelectSeq(PreOrder(t, 1), LAMBDA n : Qualifies(t[n].item))

\* The first k of them, as the entries the walker emits.
FirstLeaves(t, k) ==
    [j \in 1..Min(k, Len(LeavesInOrder(t))) |->
        [name |-> t[LeavesInOrder(t)[j]].item.title,
         url |-> t[LeavesInOrder(t)[j]].item.media_content_id]]

\* C18: for every tree and every max_photos >= 0 the walker returns exactly the
\* first min(max_photos, total) photo leaves in depth-first pre-order, children
\* in presented order, a photo leaf being a playable node of class IMAGE or
\* PHOTO whose content type starts with "image/"; nothing else is emitted.
C18_PreOrderPrefix ==
    w_pc = "done" =>
        /\ w_photos = FirstLeaves(w_tree, w_limit)
        /\ Len(w_photos) = Min(w_limit, CountPhotoLeaves(w_tree))

\* A photo below a photo, then an image without content type: pre-order puts the
\* parent first, and the untyped image is left out.
C18_Witness ==
    /\ w_pc = "done" /\ w_limit = 3 /\ Len(w_tree) = 3
    /\ w_tree[1].item = Photo("b.jpg")
    /\ w_tree[2].item = Untyped /\ w_tree[2].parent = 1
    /\ w_tree[3].item = Photo("a.jpg") /\ w_tree[3].parent = 2
    /\ Len(w_photos) = 2 /\ w_photos[1].name = "b.jpg" /\ w_photos[2].name = "a.jpg"

\* C14: when the inventory request fails at transport level (connection error,
\* timeout, non-200 status) the inventory is the empty set and the run goes on:
\* with overwrite_existing false no candidate is skipped, each is downloaded,
\* and uploaded once its download gave data.
C14_InventoryFailureDegrades ==
    (~overwrite_existing /\ snapshot = "failed") =>
        /\ existing_photos = {}
        /\ ErrorsOf("Photo sync failed") = {}
        /\ result.skipped_count = 0
        /\ calls.download = (idx - 1) + (IF pc = "upload" THEN 1 ELSE 0)
        /\ calls.upload = calls.download - Cardinality(ErrorsOf("Failed to download photo"))
        /\ pc = "returned" => (idx = Len(photos) + 1 /\ Counted = Len(photos))

\* Two candidates, the inventory request fails, and both are downloaded and
\* uploaded.
C14_Witness ==
    /\ pc = "returned" /\ ~overwrite_existing /\ snapshot = "failed"
    /\ Len(photos) = 2 /\ result.synced_count = 2
    /\ calls.inventory = 1 /\ calls.upload = 2

\* C15: push_random_item on a source with at least one photo leaf and with at
\* least one BLOOMIN8 media player selects one of the candidates the walker
\* returned and then issues a display command for that candidate.
C15_PushDisplaysSelection ==
    (p_pc = "done" /\ p_photos # <<>> /\ p_players >= 1) =>
        /\ p_selected \in 1..Len(p_photos)
        /\ Len(p_commands) >= 1
        /\ \A k \in 1..Len(p_commands) :
              p_commands[k].media_content_id = p_photos[p_selected].url

\* C16: an unexpected exception at a step after the validation is appended to
\* errors and does not abort the remaining candidates: in a run with a valid id
\* that recorded such an exception, every candidate found is still processed
\* and counted.
C16_ExceptionKeepsCandidates ==
    (pc = "returned" /\ IsMediaSourceId(media_source_id)
        /\ ErrorsOf("Photo sync failed") # {}) =>
        /\ idx = Len(photos) + 1
        /\ Counted = Len(photos)

\* The answer to a download is a failure: no 200, a transport exception
\* (status 0), or a 200 without data.
DownloadIsFailure(resp) == resp.status # 200 \/ resp.data = ""

\* C17: each candidate that is not skipped gets exactly one download attempt;
\* when it fails (non-200 status, transport exception, no data) no upload
\* request is made for the candidate, failed_count grows by one, one error is
\* recorded and the run goes on with the next candidate.
C17_OneDownloadNoRetry ==
    /\ [][pc = "download" =>
            /\ calls'.download = calls.download + 1
            /\ IF DownloadIsFailure(downloaded')
               THEN /\ pc' = "loop" /\ idx' = idx + 1 /\ photos' = photos
                    /\ calls'.upload = calls.upload /\ u_pc' = "idle" /\ posts' = 0
                    /\ result'.failed_count = result.failed_count + 1
                    /\ result'.errors =
                          Append(result.errors, <<"Failed to download photo", photos[idx].name>>)
                    /\ result'.synced_count = result.synced_count
                    /\ result'.skipped_count = result.skipped_count
               ELSE /\ pc' = "upload" /\ idx' = idx
                    /\ calls'.upload = calls.upload + 1
                    /\ result' = result]_vars
    /\ [](calls.download =
            (idx - 1) - result.skipped_count + (IF pc = "upload" THEN 1 ELSE 0))

\* A run whose first download failed and whose second candidate was synced:
\* two downloads, one upload.
C17_Witness ==
    /\ pc = "returned" /\ Len(photos) = 2 /\ result.skipped_count = 0
    /\ Len(result.errors) = 1
    /\ result.errors[1] = <<"Failed to download photo", photos[1].name>>
    /\ result.synced_count = 1
    /\ calls.download = 2 /\ calls.upload = 1

\* The run was ended by the except clause at the boundary of the run.
Aborted == ErrorsOf("Photo sync failed") # {}

\* C19: in every state of a sync run synced_photos has synced_count entries,
\* errors has failed_count entries, and one more only when a run-level
\* exception ended the run; none of the three counters ever decreases.
C19_AccumulatorConsistent ==
    /\ [](/\ Len(result.synced_photos) = result.synced_count
          /\ Len(result.errors) = result.failed_count + (IF Aborted THEN 1 ELSE 0)
          /\ Aborted => pc = "returned" /\ Cardinality(ErrorsOf("Photo sync failed")) = 1)
    /\ [][/\ result'.synced_count >= result.synced_count
          /\ result'.skipped_count >= result.skipped_count
          /\ result'.failed_count >= result.failed_count]_vars

\* A run that synced one candidate, skipped one and failed on one.
C19_Witness ==
    /\ pc = "returned" /\ Len(photos) = 3
    /\ result.synced_count = 1 /\ result.skipped_count = 1 /\ result.failed_count = 1
    /\ Len(result.synced_photos) = 1 /\ Len(result.errors) = 1

\* C20: every sync run eventually returns its result, each request being
\* answered or failing: no candidate is processed twice, a run that comes to the
\* end of its loop has processed each one once, and each upload_image call makes
\* at most max_retries attempts and max_retries - 1 waits.
C20_RunReturns ==
    /\ (pc # "idle") ~> (pc = "returned")
    /\ [][idx' \in {idx, idx + 1} /\ (idx' = idx + 1 => Counted' = Counted + 1)]_vars
    /\ [](/\ idx <= Len(photos) + 1
          /\ Counted = idx - 1
          /\ (pc = "returned" /\ ~Aborted) => idx = Len(photos) + 1)
    /\ [](u_pc # "idle" =>
            /\ attempt <= max_retries - 1
            /\ Len(delays) = attempt
            /\ posts = attempt + (IF u_pc = "sleep" THEN 1 ELSE 0))

\* A run over two candidates that returned, both processed, after an upload
\* had failed.
C20_Witness ==
    /\ pc = "returned" /\ Len(photos) = 2 /\ idx = 3
    /\ result.failed_count >= 1
    /\ ErrorsOf("Failed to upload photo") # {}

====
